---- MODULE Spec2Model ----
(***************************************************************************)
(* Data-quality validation engine of monitoring/data_quality_monitor.py:   *)
(* the four validation rules, the orchestrator (validate_data), the        *)
(* aggregator (calculate_metrics), the report generator, the metrics       *)
(* persistence, DataQualityMonitor.monitor and the AlertManager.           *)
(*                                                                         *)
(* Numbers that Python computes as floats are kept exact here, as          *)
(* fractions [num, den] with den > 0; NaN is the fraction with den = 0.    *)
(* Time is counted in whole seconds since 2000-01-01 00:00:00.             *)
(***************************************************************************)
EXTENDS Integers, Sequences, FiniteSets, TLC

VARIABLES
    \* ---- DataQualityMonitor / AlertManager (specification Spec) ----
    config,      \* self.config: the thresholds and rule parameters read at construction
    observers,   \* self.alert_manager.observers
    clock,       \* datetime.now(), in seconds
    files,       \* monitoring/metrics/: file name (timestamp) -> persisted record
    pc,          \* position of the caller inside monitor()
    loaded,      \* whether pd.read_csv succeeded in the current run
    invoked,     \* log of the validate() calls of the current run and their outcomes
    results,     \* local `results` of monitor()
    metrics,     \* local `metrics` of monitor()
    report,      \* local `report` of monitor(), as printed
    ret,         \* what monitor() handed to its caller
    runs,        \* number of monitor() calls started
    calls,       \* handle_alert invocations since monitor() or notify_observers began
    notified,    \* the last notify_observers call: how it ended, and its arguments
    saved,       \* log of the records save_metrics has written
    cfgfile,     \* what lies at config_path when the monitor is constructed
    \* ---- one rule applied to one dataset (specification SpecRules) ----
    rdata,       \* the DataFrame handed to validate() (also in SpecPar)
    rrule,       \* the rule instance
    rout,        \* what validate() produced
    rout2,       \* what a second validate() on the same dataset produced
    \* ---- calculate_metrics on two result sequences (specification SpecAgg) ----
    aresA, aresB,  \* the two result sequences
    averA, averB,  \* the verdicts calculate_metrics returned for them
    \* ---- ValidationRuleFactory (specification SpecFactory) ----
    registry,    \* ValidationRuleFactory._rules
    registered,  \* the last register_rule call
    created,     \* the last create_rule call and its outcome
    \* ---- load_data.validate_schema (specification SpecSchema) ----
    sframe,      \* the DataFrame handed to validate_schema: its columns and row count
    sout         \* how validate_schema ended

vars == <<config, observers, clock, files, pc, loaded, invoked, results, metrics, report,
          ret, runs, calls, notified, saved, cfgfile, rdata, rrule, rout, rout2,
          aresA, aresB, averA, averB, registry, registered, created, sframe, sout>>

monitorVars == <<config, observers, clock, files, pc, loaded, invoked, results, metrics,
                 report, ret, runs, calls, notified, saved, cfgfile>>
ruleVars == <<rdata, rrule, rout, rout2>>
aggVars == <<aresA, aresB, averA, averB>>
factoryVars == <<registry, registered, created>>
schemaVars == <<sframe, sout>>

-----------------------------------------------------------------------------
(* Bounds of the model *)

MaxRows == 2         \* rows of a dataset
MaxClock == 1        \* seconds the clock may advance
MaxRuns == 1         \* monitor() calls in one behaviour
MaxObservers == 2    \* length of the observer list
MaxChecks == 4       \* length of a result sequence handed to calculate_metrics
MaxRepeat == 2       \* monitor() calls in one behaviour of SpecRuns

(* Program constants *)

DefaultWarning == 80           \* thresholds.get("warning", 80.0)
DefaultCritical == 50          \* thresholds.get("critical", 50.0)
DefaultMissingThreshold == 2   \* .get("missing_threshold", 2.0)
MaxFutureDays == 1             \* max_future_days=1
RoiMin == 0                    \* min_threshold=0.0
RoiMax == 3                    \* max_threshold=3.0
RoiClassMax == 5               \* max_threshold: float = 5.0
SecondsPerDay == 86400         \* timedelta(days=...)
DateFloor == 0                 \* pd.Timestamp('2000-01-01')

None == [none |-> TRUE]
\* no rule object
NoRule == [kind |-> "none"]

-----------------------------------------------------------------------------
(* Exact arithmetic on fractions *)

Frac(n, d) == [num |-> n, den |-> d]
NaN == Frac(0, 0)
IsNaN(f) == f.den = 0
\* f <= g, f >= g for fractions with positive denominators; any comparison
\* with NaN is false, as in Python
FracLe(f, g) == ~IsNaN(f) /\ ~IsNaN(g) /\ f.num * g.den <= g.num * f.den
FracGe(f, g) == FracLe(g, f)
FracGt(f, g) == ~IsNaN(f) /\ ~IsNaN(g) /\ f.num * g.den > g.num * f.den
\* Python's builtin max(0, x): x if x > 0 else 0 (so max(0, nan) is 0)
Max0(f) == IF FracGt(f, Frac(0, 1)) THEN f ELSE Frac(0, 1)
\* 100 - f
HundredMinus(f) == IF IsNaN(f) THEN NaN ELSE Frac(100 * f.den - f.num, f.den)

-----------------------------------------------------------------------------
(* Datasets: a pandas DataFrame as rows x named columns.  A cell is missing *)
(* (NaN), a number / a parseable instant, or a text that is neither.  A     *)
(* column whose instants carry a UTC offset parses to a tz-aware series.    *)

Null == [k |-> "null", v |-> 0]
Text == [k |-> "text", v |-> 0]
Val(x) == [k |-> "val", v |-> x]

Column(tz, cells) == [tz |-> tz, cells |-> cells]
Columns(data) == DOMAIN data.cols
\* len(data)
Rows(data) == data.nrows
\* data[col].isnull().sum()
NullCount(data, col) ==
    Cardinality({i \in 1..Rows(data) : data.cols[col].cells[i].k = "null"})

SetMax(S) == CHOOSE x \in S : \A y \in S : y <= x

Outcome(r) == [raised |-> FALSE, result |-> r]
Raises == [raised |-> TRUE, result |-> None]

ValidationResult(name, success, score, details, recs) ==
    [rule_name |-> name, success |-> success, score |-> score,
     details |-> details, recommendations |-> recs]

-----------------------------------------------------------------------------
(* CompletenessRule *)

CompletenessRule(threshold) == [kind |-> "completeness", threshold |-> threshold]

\* (data.isnull().sum() / len(data) * 100).max(): NaN for no rows or no columns
MissingPct(data) ==
    IF Rows(data) = 0 \/ Columns(data) = {}
    THEN NaN
    ELSE Frac(100 * SetMax({NullCount(data, c) : c \in Columns(data)}), Rows(data))

CompletenessRecommendations(rule, missing_pct) ==
    IF FracGt(missing_pct, Frac(rule.threshold, 1))
    THEN <<"Investigate upstream data sources", "Implement data validation at ingestion">>
    ELSE <<>>

CompletenessValidate(rule, data) ==
    LET missing_pct == MissingPct(data)
        success == FracLe(missing_pct, Frac(rule.threshold, 1))
    IN  Outcome(ValidationResult("completeness", success,
                    Max0(HundredMinus(missing_pct)),
                    [missing_percentage |-> missing_pct, threshold |-> rule.threshold],
                    CompletenessRecommendations(rule, missing_pct)))

-----------------------------------------------------------------------------
(* UniquenessRule *)

UniquenessRule(key_columns) == [kind |-> "uniqueness", key_columns |-> key_columns]

SeqToSet(s) == {s[i] : i \in 1..Len(s)}

\* the key tuple of row i
KeyOf(data, key_columns, i) == [j \in 1..Len(key_columns) |-> data.cols[key_columns[j]].cells[i]]

\* every row of a group of equal keys is counted, the first one too
DuplicatesAll(data, key_columns) ==
    Cardinality({i \in 1..Rows(data) :
        \E j \in 1..Rows(data) :
            j # i /\ KeyOf(data, key_columns, j) = KeyOf(data, key_columns, i)})

\* data.duplicated(subset=key_columns).sum(): rows equal to an earlier row
Duplicates(data, key_columns) ==
    Cardinality({i \in 1..Rows(data) :
        \E j \in 1..(i - 1) : KeyOf(data, key_columns, j) = KeyOf(data, key_columns, i)})

UniquenessRecommendations(duplicates) ==
    IF duplicates > 0
    THEN <<"Implement deduplication logic", "Review data ingestion process">>
    ELSE <<>>

UniquenessValidate(rule, data) ==
    IF ~(SeqToSet(rule.key_columns) \subseteq Columns(data))
    THEN Raises      \* KeyError from DataFrame.duplicated
    ELSE LET duplicates == Duplicates(data, rule.key_columns)
             success == duplicates = 0
         IN  Outcome(ValidationResult("uniqueness", success,
                 IF success THEN Frac(100, 1)
                 ELSE Max0(HundredMinus(Frac(100 * duplicates, Rows(data)))),
                 [duplicate_count |-> duplicates, key_columns |-> rule.key_columns],
                 UniquenessRecommendations(duplicates)))

-----------------------------------------------------------------------------
(* DateValidityRule *)

DateValidityRule(date_columns, max_future_days) ==
    [kind |-> "date_validity", date_columns |-> date_columns,
     max_future_days |-> max_future_days]

\* pd.to_datetime(..., errors='coerce').isnull().sum(): missing and unparsable cells
NaTCount(data, col) ==
    Cardinality({i \in 1..Rows(data) : data.cols[col].cells[i].k # "val"})
FutureCount(data, col, now, max_future_days) ==
    Cardinality({i \in 1..Rows(data) :
        /\ data.cols[col].cells[i].k = "val"
        /\ data.cols[col].cells[i].v > now + max_future_days * SecondsPerDay})
OldCount(data, col) ==
    Cardinality({i \in 1..Rows(data) :
        /\ data.cols[col].cells[i].k = "val"
        /\ data.cols[col].cells[i].v < DateFloor})

\* what one column adds to invalid_dates; comparing a tz-aware series with the
\* naive current_date raises after null_dates was added, and the handler then
\* adds len(data)
InvalidInColumn(data, col, now, max_future_days) ==
    IF data.cols[col].tz
    THEN NaTCount(data, col) + Rows(data)
    ELSE NaTCount(data, col) + FutureCount(data, col, now, max_future_days)
         + OldCount(data, col)

RECURSIVE DateScan(_, _, _, _, _)
\* the loop over self.date_columns from position i: [invalid, total]
DateScan(date_columns, i, data, now, max_future_days) ==
    IF i > Len(date_columns)
    THEN [invalid |-> 0, total |-> 0]
    ELSE LET rest == DateScan(date_columns, i + 1, data, now, max_future_days)
             col == date_columns[i]
         IN  IF col \in Columns(data)
             THEN [invalid |-> InvalidInColumn(data, col, now, max_future_days) + rest.invalid,
                   total |-> Rows(data) + rest.total]
             ELSE rest

DateRecommendations(invalid_dates, total_cells) ==
    IF invalid_dates > 0
    THEN (IF (IF total_cells > 0 THEN invalid_dates * 10 > total_cells ELSE TRUE)
          THEN <<"Review data source date format standards",
                 "Implement date validation at data ingestion">>
          ELSE <<"Clean up invalid date entries",
                 "Add date format validation to ETL pipeline">>)
         \o <<"Consider adding date range business rules">>
    ELSE <<>>

\* a scan of no cells is scored as fully valid
DateValidityValidateFull(rule, data, now) ==
    LET scan == DateScan(rule.date_columns, 1, data, now, rule.max_future_days)
        invalid_dates == scan.invalid
        total_date_cells == scan.total
        success == invalid_dates = 0
        validity_rate == IF total_date_cells > 0
                         THEN Frac((total_date_cells - invalid_dates) * 100, total_date_cells)
                         ELSE Frac(100, 1)
    IN  Outcome(ValidationResult("date_validity", success, validity_rate,
            [invalid_dates |-> invalid_dates, total_date_cells |-> total_date_cells,
             date_columns |-> rule.date_columns, max_future_days |-> rule.max_future_days],
            DateRecommendations(invalid_dates, total_date_cells)))

DateValidityValidate(rule, data, now) ==
    LET scan == DateScan(rule.date_columns, 1, data, now, rule.max_future_days)
        invalid_dates == scan.invalid
        total_date_cells == scan.total
        success == invalid_dates = 0
        validity_rate == IF total_date_cells > 0
                         THEN Frac((total_date_cells - invalid_dates) * 100, total_date_cells)
                         ELSE Frac(0, 1)
    IN  Outcome(ValidationResult("date_validity", success, validity_rate,
            [invalid_dates |-> invalid_dates, total_date_cells |-> total_date_cells,
             date_columns |-> rule.date_columns, max_future_days |-> rule.max_future_days],
            DateRecommendations(invalid_dates, total_date_cells)))

-----------------------------------------------------------------------------
(* RoiThresholdRule *)

RoiThresholdRule(roi_column, min_threshold, max_threshold) ==
    [kind |-> "roi_threshold", roi_column |-> roi_column,
     min_threshold |-> min_threshold, max_threshold |-> max_threshold]

\* the rows of the column, missing values included
RoiValuesAll(data, col) == 1..Rows(data)

\* data[roi_column].dropna(), as the set of row numbers kept
RoiValues(data, col) == {i \in 1..Rows(data) : data.cols[col].cells[i].k # "null"}

RoiRecommendations(outliers_low, outliers_high, total_values) ==
    LET high == IF outliers_high > 0
                THEN (IF outliers_high * 10 > total_values
                      THEN <<"Review ROI calculation - unusually high values may indicate data errors",
                             "Validate advertising spend vs sales attribution">>
                      ELSE <<"Investigate campaigns with exceptional ROI performance">>)
                ELSE <<>>
        low == IF outliers_low > 0
               THEN (IF outliers_low * 10 > total_values
                     THEN <<"Review low ROI campaigns for optimization opportunities",
                            "Check for data quality issues in spend or sales tracking">>
                     ELSE <<"Monitor underperforming campaigns for budget reallocation">>)
               ELSE <<>>
    IN  IF high \o low = <<>> THEN <<"ROI values within expected ranges">> ELSE high \o low

\* values on a bound count as outliers
RoiValidateInclusive(rule, data) ==
    IF rule.roi_column \notin Columns(data)
    THEN Outcome(ValidationResult("roi_threshold", FALSE, Frac(0, 1),
            [error |-> "Column not found in dataset"],
            <<"Verify ROI column name in configuration">>))
    ELSE LET col == rule.roi_column
             roi_values == RoiValues(data, col)
             n == Cardinality(roi_values)
         IN  IF n = 0
             THEN Outcome(ValidationResult("roi_threshold", FALSE, Frac(0, 1),
                     [error |-> "No valid ROI values found"],
                     <<"Check ROI calculation logic", "Verify spend and sales data">>))
             ELSE IF \E i \in roi_values : data.cols[col].cells[i].k = "text"
             THEN Raises
             ELSE LET outliers_low == Cardinality({i \in roi_values :
                          data.cols[col].cells[i].v <= rule.min_threshold})
                      outliers_high == Cardinality({i \in roi_values :
                          data.cols[col].cells[i].v >= rule.max_threshold})
                      total_outliers == outliers_low + outliers_high
                      outlier_rate == Frac(total_outliers, n)
                      score == Max0(Frac(100 * n - 200 * total_outliers, n))
                      success == FracLe(outlier_rate, Frac(5, 100))
                  IN  Outcome(ValidationResult("roi_threshold", success, score,
                          [outliers_below_threshold |-> outliers_low,
                           outliers_above_threshold |-> outliers_high,
                           total_outliers |-> total_outliers,
                           total_valid_values |-> n,
                           min_threshold |-> rule.min_threshold,
                           max_threshold |-> rule.max_threshold,
                           roi_column |-> col],
                          RoiRecommendations(outliers_low, outliers_high, n)))

RoiValidate(rule, data) ==
    IF rule.roi_column \notin Columns(data)
    THEN Outcome(ValidationResult("roi_threshold", FALSE, Frac(0, 1),
            [error |-> "Column not found in dataset"],
            <<"Verify ROI column name in configuration">>))
    ELSE LET col == rule.roi_column
             roi_values == RoiValues(data, col)
             n == Cardinality(roi_values)
         IN  IF n = 0
             THEN Outcome(ValidationResult("roi_threshold", FALSE, Frac(0, 1),
                     [error |-> "No valid ROI values found"],
                     <<"Check ROI calculation logic", "Verify spend and sales data">>))
             ELSE IF \E i \in roi_values : data.cols[col].cells[i].k = "text"
             THEN Raises     \* TypeError: '<' between str and float
             ELSE LET outliers_low == Cardinality({i \in roi_values :
                          data.cols[col].cells[i].v < rule.min_threshold})
                      outliers_high == Cardinality({i \in roi_values :
                          data.cols[col].cells[i].v > rule.max_threshold})
                      total_outliers == outliers_low + outliers_high
                      outlier_rate == Frac(total_outliers, n)
                      score == Max0(Frac(100 * n - 200 * total_outliers, n))
                      success == FracLe(outlier_rate, Frac(5, 100))
                  IN  Outcome(ValidationResult("roi_threshold", success, score,
                          [outliers_below_threshold |-> outliers_low,
                           outliers_above_threshold |-> outliers_high,
                           total_outliers |-> total_outliers,
                           total_valid_values |-> n,
                           min_threshold |-> rule.min_threshold,
                           max_threshold |-> rule.max_threshold,
                           roi_column |-> col],
                          RoiRecommendations(outliers_low, outliers_high, n)))

\* rule.validate(data), dispatched on the rule's class
Validate(rule, data, now) ==
    CASE rule.kind = "completeness" -> CompletenessValidate(rule, data)
      [] rule.kind = "uniqueness" -> UniquenessValidate(rule, data)
      [] rule.kind = "date_validity" -> DateValidityValidate(rule, data, now)
      [] rule.kind = "roi_threshold" -> RoiValidate(rule, data)

-----------------------------------------------------------------------------
(* ValidationRuleFactory *)

\* A rule class is named by the kind tag its instances carry. CustomRule is a
\* class a caller passes to register_rule; it takes one optional parameter.
CustomRule(level) == [kind |-> "custom", level |-> level]

\* the parameters of each __init__, and those without a default
Params(class) ==
    CASE class = "completeness" -> {"threshold"}
      [] class = "uniqueness" -> {"key_columns"}
      [] class = "date_validity" -> {"date_columns", "max_future_days"}
      [] class = "roi_threshold" -> {"roi_column", "min_threshold", "max_threshold"}
      [] class = "custom" -> {"level"}
Required(class) ==
    CASE class = "uniqueness" -> {"key_columns"}
      [] class = "date_validity" -> {"date_columns"}
      [] class = "roi_threshold" -> {"roi_column"}
      [] OTHER -> {}

\* Python binds **kwargs to the signature, or raises TypeError
Accepts(class, kwargs) ==
    /\ DOMAIN kwargs \subseteq Params(class)
    /\ Required(class) \subseteq DOMAIN kwargs

Arg(kwargs, name, default) == IF name \in DOMAIN kwargs THEN kwargs[name] ELSE default

\* rule_class(**kwargs)
Construct(class, kwargs) ==
    IF ~Accepts(class, kwargs)
    THEN [raised |-> TRUE, error |-> "TypeError", names |-> class, rule |-> NoRule]
    ELSE [raised |-> FALSE, error |-> "", names |-> class,
          rule |-> CASE class = "completeness" ->
                          CompletenessRule(Arg(kwargs, "threshold", DefaultMissingThreshold))
                     [] class = "uniqueness" -> UniquenessRule(kwargs.key_columns)
                     [] class = "date_validity" ->
                          DateValidityRule(kwargs.date_columns,
                                           Arg(kwargs, "max_future_days", MaxFutureDays))
                     [] class = "roi_threshold" ->
                          RoiThresholdRule(kwargs.roi_column,
                                           Arg(kwargs, "min_threshold", RoiMin),
                                           Arg(kwargs, "max_threshold", RoiClassMax))
                     [] class = "custom" -> CustomRule(Arg(kwargs, "level", 0))]

\* ValidationRuleFactory._rules as the class body leaves it
BuiltinRegistry ==
    [completeness |-> "completeness", uniqueness |-> "uniqueness",
     date_validity |-> "date_validity", roi_threshold |-> "roi_threshold"]

\* an unknown kind falls back to the completeness class
CreateRuleLenient(reg, rule_type, kwargs) ==
    IF rule_type \notin DOMAIN reg
    THEN Construct("completeness", << >>)
    ELSE Construct(reg[rule_type], kwargs)

\* ValidationRuleFactory.create_rule(rule_type, **kwargs)
CreateRule(reg, rule_type, kwargs) ==
    IF rule_type \notin DOMAIN reg
    THEN [raised |-> TRUE, error |-> "ValueError", names |-> rule_type, rule |-> NoRule]
    ELSE Construct(reg[rule_type], kwargs)

\* a name already registered keeps its class
RegisterRuleKeep(reg, name, rule_class) ==
    [n \in DOMAIN reg \cup {name} |-> IF n \in DOMAIN reg THEN reg[n] ELSE rule_class]

\* ValidationRuleFactory.register_rule(name, rule_class): cls._rules[name] = rule_class
RegisterRule(reg, name, rule_class) ==
    [n \in DOMAIN reg \cup {name} |-> IF n = name THEN rule_class ELSE reg[n]]

-----------------------------------------------------------------------------
(* Configuration and the rule list *)

\* config["alerting"]["thresholds"] and
\* config["data_quality_rules"]["completeness"]["missing_threshold"]; a key the
\* file does not give is ABSENT
Opt(n) == [given |-> TRUE, v |-> n]
NotGiven == [given |-> FALSE, v |-> 0]

\* ... and config["data_quality_rules"]["roi_threshold"]["min"] and ["max"]
ConfigWithRoi(warning, critical, missing_threshold, roi_min, roi_max) ==
    [warning |-> warning, critical |-> critical, missing_threshold |-> missing_threshold,
     roi_min |-> roi_min, roi_max |-> roi_max]

Config(warning, critical, missing_threshold) ==
    ConfigWithRoi(warning, critical, missing_threshold, NotGiven, NotGiven)

\* dict.get(key, default)
Get(opt, default) == IF opt.given THEN opt.v ELSE default

DefaultConfig == Config(Opt(DefaultWarning), Opt(DefaultCritical), Opt(DefaultMissingThreshold))

\* what lies at config_path
Missing == [state |-> "missing"]
Empty == [state |-> "empty"]
Content(cfg) == [state |-> "content", config |-> cfg]

\* _load_config: yaml.safe_load gives None for a file without content
LoadConfig(file) ==
    CASE file.state = "missing" -> DefaultConfig
      [] file.state = "empty" -> None
      [] file.state = "content" -> file.config

\* _initialize_rules: four create_rule calls against the built-in registry
InitializeRules(cfg) ==
    << CreateRule(BuiltinRegistry, "completeness",
                  [threshold |-> Get(cfg.missing_threshold, DefaultMissingThreshold)]).rule,
       CreateRule(BuiltinRegistry, "uniqueness",
                  [key_columns |-> <<"record_id", "campaign_id">>]).rule,
       CreateRule(BuiltinRegistry, "date_validity",
                  [date_columns |-> <<"campaign_date", "ingestion_timestamp">>,
                   max_future_days |-> MaxFutureDays]).rule,
       CreateRule(BuiltinRegistry, "roi_threshold",
                  [roi_column |-> "return_on_ad_spend", min_threshold |-> RoiMin,
                   max_threshold |-> RoiMax]).rule >>

-----------------------------------------------------------------------------
(* The datasets the model draws from *)

\* an instant that is more than max_future_days ahead at second 0 only
FutureEdge == MaxFutureDays * SecondsPerDay + 1

KeyCells == {Null, Val(1), Val(2)}
DateCells == {Null, Text, Val(DateFloor - 1), Val(DateFloor), Val(FutureEdge)}
TzDateCells == {Null, Val(DateFloor)}
RoiCells == {Null, Text, Val(RoiMin - 1), Val(RoiMin), Val(RoiMax), Val(RoiMax + 1)}

NoColumn == [present |-> FALSE, tz |-> FALSE, cells |-> <<>>]
Present(tz, cells) == [present |-> TRUE, tz |-> tz, cells |-> cells]

KeyOptions(n) == {NoColumn} \cup {Present(FALSE, c) : c \in [1..n -> KeyCells]}
DateOptions(n) ==
    {NoColumn} \cup {Present(FALSE, c) : c \in [1..n -> DateCells]}
    \cup {Present(TRUE, c) : c \in {x \in [1..n -> TzDateCells] : \E i \in 1..n : x[i].k = "val"}}
\* the second date column varies less
SecondDateOptions(n) == {NoColumn} \cup {Present(FALSE, c) : c \in [1..n -> TzDateCells]}
RoiOptions(n) == {NoColumn} \cup {Present(FALSE, c) : c \in [1..n -> RoiCells]}

\* the DataFrame with n rows and the columns that `choice` makes present
Frame(n, choice) ==
    [nrows |-> n,
     cols |-> [c \in {x \in DOMAIN choice : choice[x].present} |->
                  Column(choice[c].tz, choice[c].cells)]]

KeyNames == {"record_id", "campaign_id"}
RoiNames == {"return_on_ad_spend"}

\* frames that vary the columns one rule reads
RuleDatasets ==
    UNION {   {Frame(n, ch) : ch \in [KeyNames -> KeyOptions(n)]}
         \cup {Frame(n, [campaign_date |-> a, ingestion_timestamp |-> b]) :
                    a \in DateOptions(n), b \in SecondDateOptions(n)}
         \cup {Frame(n, ch) : ch \in [RoiNames -> RoiOptions(n)]}
         : n \in 0..MaxRows}

ConfiguredThresholds == {NotGiven, Opt(0), Opt(50)}

\* Frames larger than MaxRows, each with the rule applied to it
\* bounds [0, 3] on the values 1, 2, 10, -1
RoiExample ==
    Frame(4, [return_on_ad_spend |-> Present(FALSE, <<Val(1), Val(2), Val(10), Val(-1)>>)])
\* one value in twenty, and one in ten, above the upper bound
RoiOneIn(n) ==
    Frame(n, [return_on_ad_spend |->
                Present(FALSE, [i \in 1..n |-> IF i = 1 THEN Val(RoiMax + 1) ELSE Val(RoiMax)])])
\* ten rows, one column with three missing cells, one without
CompletenessExample ==
    Frame(10, [campaign_id |-> Present(FALSE, [i \in 1..10 |-> IF i <= 3 THEN Null ELSE Val(i)]),
               record_id |-> Present(FALSE, [i \in 1..10 |-> Val(i)])])
\* five rows, the fourth repeating the id of the first
UniquenessExample ==
    Frame(5, [id |-> Present(FALSE, <<Val(1), Val(2), Val(3), Val(1), Val(4)>>)])

ExampleCases ==
    { [rule |-> RoiThresholdRule("return_on_ad_spend", RoiMin, RoiMax), data |-> RoiExample],
      [rule |-> RoiThresholdRule("return_on_ad_spend", RoiMin, RoiMax), data |-> RoiOneIn(20)],
      [rule |-> RoiThresholdRule("return_on_ad_spend", RoiMin, RoiMax), data |-> RoiOneIn(10)],
      [rule |-> CompletenessRule(DefaultMissingThreshold), data |-> CompletenessExample],
      [rule |-> UniquenessRule(<<"id">>), data |-> UniquenessExample] }

-----------------------------------------------------------------------------
(* Specification SpecRules: one rule instance validates one dataset *)

NoData == [nrows |-> 0, cols |-> <<>>]
\* no frame handed to validate_schema
NoFrame == [columns |-> {}, nrows |-> 0]
\* the configuration file plays no part
NoFile == [state |-> "unread"]
NotNotified == [outcome |-> "none", observers |-> <<>>, metrics |-> None]
Idle == [idle |-> TRUE]

MonitorIdle ==
    /\ config = DefaultConfig /\ observers = <<>> /\ files = {} /\ pc = "off"
    /\ loaded = "none" /\ invoked = <<>> /\ results = <<>> /\ metrics = None /\ report = <<>>
    /\ ret = None /\ runs = 0 /\ calls = <<>> /\ notified = NotNotified
    /\ saved = <<>> /\ cfgfile = NoFile
RulesIdle == rdata = NoData /\ rrule = NoRule /\ rout = Idle /\ rout2 = Idle
AggIdle == aresA = <<>> /\ aresB = <<>> /\ averA = Idle /\ averB = Idle
FactoryIdle == registry = BuiltinRegistry /\ registered = Idle /\ created = Idle
SchemaIdle == sframe = NoFrame /\ sout = Idle

InitRules ==
    /\ MonitorIdle /\ AggIdle /\ FactoryIdle /\ SchemaIdle
    /\ clock \in 0..MaxClock
    /\ \/ /\ rdata \in RuleDatasets
          /\ \E t \in ConfiguredThresholds :
               \E i \in 1..4 : rrule = InitializeRules(Config(NotGiven, NotGiven, t))[i]
       \/ \E e \in ExampleCases : rdata = e.data /\ rrule = e.rule
    /\ rout = Idle /\ rout2 = Idle

\* result = rule.validate(data)
ApplyRule ==
    /\ rout = Idle
    /\ rrule # NoRule
    /\ rout' = Validate(rrule, rdata, clock)
    /\ UNCHANGED <<rdata, rrule, rout2>>
    /\ UNCHANGED monitorVars
    /\ UNCHANGED aggVars /\ UNCHANGED factoryVars /\ UNCHANGED schemaVars

\* time passes between two checks of the same dataset
RuleTick ==
    /\ rout # Idle /\ rout2 = Idle
    /\ clock < MaxClock
    /\ clock' = clock + 1
    /\ UNCHANGED <<config, observers, files, pc, loaded, invoked, results, metrics, report,
                   ret, runs, calls, notified, saved, cfgfile>>
    /\ UNCHANGED ruleVars /\ UNCHANGED aggVars /\ UNCHANGED factoryVars /\ UNCHANGED schemaVars

\* result = rule.validate(data), once more on the same rule and dataset
ApplyRuleAgain ==
    /\ rout # Idle /\ rout2 = Idle
    /\ rout2' = Validate(rrule, rdata, clock)
    /\ UNCHANGED <<rdata, rrule, rout>>
    /\ UNCHANGED monitorVars
    /\ UNCHANGED aggVars /\ UNCHANGED factoryVars /\ UNCHANGED schemaVars

NextRules == ApplyRule \/ RuleTick \/ ApplyRuleAgain

SpecRules == InitRules /\ [][NextRules]_vars

\* the score of a result, as a number in [0, 100]
ScoreInRange(r) == r.score.den > 0 /\ 0 <= r.score.num /\ r.score.num <= 100 * r.score.den

-----------------------------------------------------------------------------
(* DataQualityMonitor.validate_data *)

LoadError == [nrows |-> 0, cols |-> <<>>, unreadable |-> TRUE]
Loaded(data) == "unreadable" \notin DOMAIN data

RECURSIVE RunRulesAbort(_, _, _, _)
\* the loop without the inner try/except: the first exception leaves the loop
\* and the outer handler returns []
RunRulesAbort(rules, i, data, now) ==
    IF i > Len(rules)
    THEN [results |-> <<>>, invoked |-> <<>>, aborted |-> FALSE]
    ELSE LET out == Validate(rules[i], data, now)
             entry == [rule |-> rules[i].kind, out |-> out]
         IN  IF out.raised
             THEN [results |-> <<>>, invoked |-> <<entry>>, aborted |-> TRUE]
             ELSE LET rest == RunRulesAbort(rules, i + 1, data, now)
                  IN  [results |-> IF rest.aborted THEN <<>> ELSE <<out.result>> \o rest.results,
                       invoked |-> <<entry>> \o rest.invoked,
                       aborted |-> rest.aborted]

RECURSIVE RunRulesReversed(_, _, _, _)
\* the loop with each result put in front of the list instead of appended
RunRulesReversed(rules, i, data, now) ==
    IF i > Len(rules)
    THEN [results |-> <<>>, invoked |-> <<>>]
    ELSE LET out == Validate(rules[i], data, now)
             rest == RunRulesReversed(rules, i + 1, data, now)
         IN  [results |-> rest.results \o (IF out.raised THEN <<>> ELSE <<out.result>>),
              invoked |-> <<[rule |-> rules[i].kind, out |-> out]>> \o rest.invoked]

RECURSIVE RunRulesRecordFailure(_, _, _, _)
\* the except branch appends a failing result for the rule that raised
RunRulesRecordFailure(rules, i, data, now) ==
    IF i > Len(rules)
    THEN [results |-> <<>>, invoked |-> <<>>]
    ELSE LET out == Validate(rules[i], data, now)
             rest == RunRulesRecordFailure(rules, i + 1, data, now)
         IN  [results |-> (IF out.raised
                           THEN <<ValidationResult(rules[i].kind, FALSE, Frac(0, 1),
                                                   [error |-> "rule raised"], <<>>)>>
                           ELSE <<out.result>>) \o rest.results,
              invoked |-> <<[rule |-> rules[i].kind, out |-> out]>> \o rest.invoked]

RECURSIVE RunRulesPlaceholder(_, _, _, _)
\* a run in which no rule returned yields one failing placeholder result
RunRulesPlaceholder(rules, i, data, now) ==
    IF i > Len(rules)
    THEN [results |-> <<>>, invoked |-> <<>>]
    ELSE LET out == Validate(rules[i], data, now)
             rest == RunRulesPlaceholder(rules, i + 1, data, now)
             got == (IF out.raised THEN <<>> ELSE <<out.result>>) \o rest.results
         IN  [results |-> IF i = 1 /\ got = <<>>
                          THEN <<ValidationResult("no_results", FALSE, Frac(0, 1),
                                                  [error |-> "every rule raised"], <<>>)>>
                          ELSE got,
              invoked |-> <<[rule |-> rules[i].kind, out |-> out]>> \o rest.invoked]

RECURSIVE RunRules(_, _, _, _)
\* the loop over self.validation_rules from position i, each rule inside its
\* own try/except: [results, invoked]
RunRules(rules, i, data, now) ==
    IF i > Len(rules)
    THEN [results |-> <<>>, invoked |-> <<>>]
    ELSE LET out == Validate(rules[i], data, now)
             rest == RunRules(rules, i + 1, data, now)
         IN  [results |-> (IF out.raised THEN <<>> ELSE <<out.result>>) \o rest.results,
              invoked |-> <<[rule |-> rules[i].kind, out |-> out]>> \o rest.invoked]

\* validate_data that goes on with an empty frame when the read fails
ValidateDataUnguarded(rules, source, now) == RunRules(rules, 1, source, now)

\* validate_data(data_path), `source` being what pd.read_csv finds there
ValidateData(rules, source, now) ==
    IF ~Loaded(source)
    THEN [results |-> <<>>, invoked |-> <<>>]     \* except Exception: return []
    ELSE RunRules(rules, 1, source, now)

-----------------------------------------------------------------------------
(* DataQualityMonitor.calculate_metrics *)

RECURSIVE CountPassedUntilFailure(_, _)
\* counting stops at the first failing result
CountPassedUntilFailure(rs, i) ==
    IF i > Len(rs) \/ ~rs[i].success THEN 0 ELSE 1 + CountPassedUntilFailure(rs, i + 1)

RECURSIVE CountPassed(_, _)
CountPassed(rs, i) ==
    IF i > Len(rs) THEN 0 ELSE (IF rs[i].success THEN 1 ELSE 0) + CountPassed(rs, i + 1)

RECURSIVE FailedNames(_, _)
FailedNames(rs, i) ==
    IF i > Len(rs) THEN <<>>
    ELSE (IF rs[i].success THEN <<>> ELSE <<rs[i].rule_name>>) \o FailedNames(rs, i + 1)

\* the classification with the critical threshold tested first
StatusCriticalFirst(success_rate, cfg) ==
    IF FracGe(success_rate, Frac(Get(cfg.critical, DefaultCritical), 1)) THEN "WARNING"
    ELSE IF FracGe(success_rate, Frac(Get(cfg.warning, DefaultWarning), 1)) THEN "PASSING"
    ELSE "CRITICAL"

\* the classification with the first comparison turned round
StatusFlipped(success_rate, cfg) ==
    IF FracLe(success_rate, Frac(Get(cfg.warning, DefaultWarning), 1)) THEN "PASSING"
    ELSE IF FracGe(success_rate, Frac(Get(cfg.critical, DefaultCritical), 1)) THEN "WARNING"
    ELSE "CRITICAL"

\* the rate taken against the failed checks instead of all checks
SuccessRateOverFailed(passed_checks, total_checks) ==
    Frac(passed_checks * 100, total_checks - passed_checks)

\* (passed_checks / total_checks * 100) if total_checks > 0 else 0
SuccessRate(passed_checks, total_checks) ==
    IF total_checks > 0 THEN Frac(passed_checks * 100, total_checks) ELSE Frac(0, 1)

\* the if / elif / else on success_rate
Status(success_rate, cfg) ==
    IF FracGe(success_rate, Frac(Get(cfg.warning, DefaultWarning), 1)) THEN "PASSING"
    ELSE IF FracGe(success_rate, Frac(Get(cfg.critical, DefaultCritical), 1)) THEN "WARNING"
    ELSE "CRITICAL"

\* calculate_metrics without the `if not results` guard
CalculateMetricsUnguarded(rs, cfg, now_id, now_ts) ==
    LET total_checks == Len(rs)
        passed_checks == CountPassed(rs, 1)
        success_rate == SuccessRate(passed_checks, total_checks)
    IN  [run_id |-> now_id,
         timestamp |-> now_ts,
         success_rate |-> success_rate,
         total_checks |-> total_checks,
         passed_checks |-> passed_checks,
         failed_checks |-> total_checks - passed_checks,
         critical_failures |-> FailedNames(rs, 1),
         overall_status |-> Status(success_rate, cfg)]

\* now_id and now_ts are the two datetime.now() readings
CalculateMetrics(rs, cfg, now_id, now_ts) ==
    IF rs = <<>>
    THEN None
    ELSE LET total_checks == Len(rs)
             passed_checks == CountPassed(rs, 1)
             failed_checks == total_checks - passed_checks
             success_rate == SuccessRate(passed_checks, total_checks)
         IN  [run_id |-> now_id,
              timestamp |-> now_ts,
              success_rate |-> success_rate,
              total_checks |-> total_checks,
              passed_checks |-> passed_checks,
              failed_checks |-> failed_checks,
              critical_failures |-> FailedNames(rs, 1),
              overall_status |-> Status(success_rate, cfg)]

-----------------------------------------------------------------------------
(* DataQualityMonitor.generate_report: the report as its lines *)

Field(details, name, default) == IF name \in DOMAIN details THEN details[name] ELSE default

\* the rule-specific bullet of one failing result (none for an unknown rule name)
DetailLine(r) ==
    CASE r.rule_name = "completeness" ->
            <<[line |-> "Missing values", pct |-> r.details.missing_percentage,
               threshold |-> r.details.threshold]>>
      [] r.rule_name = "uniqueness" ->
            <<[line |-> "Duplicate records", count |-> r.details.duplicate_count]>>
      [] r.rule_name = "date_validity" ->
            <<[line |-> "Invalid dates", count |-> r.details.invalid_dates,
               columns |-> Len(r.details.date_columns)]>>
      [] r.rule_name = "roi_threshold" ->
            <<[line |-> "ROI outliers", count |-> Field(r.details, "total_outliers", 0),
               min |-> Field(r.details, "min_threshold", RoiMin),
               max |-> Field(r.details, "max_threshold", RoiMax)]>>
      [] OTHER -> <<>>

RECURSIVE RecLines(_, _)
RecLines(recs, i) ==
    IF i > Len(recs) THEN <<>>
    ELSE <<[line |-> "recommendation", text |-> recs[i]]>> \o RecLines(recs, i + 1)

RECURSIVE IssueLinesAll(_, _)
\* passing results are listed as well
IssueLinesAll(rs, i) ==
    IF i > Len(rs) THEN <<>>
    ELSE DetailLine(rs[i]) \o RecLines(rs[i].recommendations, 1) \o IssueLinesAll(rs, i + 1)

RECURSIVE IssueLines(_, _)
IssueLines(rs, i) ==
    IF i > Len(rs) THEN <<>>
    ELSE (IF rs[i].success THEN <<>>
          ELSE DetailLine(rs[i]) \o RecLines(rs[i].recommendations, 1))
         \o IssueLines(rs, i + 1)

GenerateReport(m, rs) ==
    IF m = None
    THEN <<[line |-> "No metrics available"]>>
    ELSE <<[line |-> "DATA QUALITY REPORT"],
           [line |-> "Run ID", run_id |-> m.run_id],
           [line |-> "Timestamp", timestamp |-> m.timestamp],
           [line |-> "Success Rate", rate |-> m.success_rate,
            passed |-> m.passed_checks, total |-> m.total_checks],
           [line |-> "Status", status |-> m.overall_status]>>
         \o (IF \E i \in 1..Len(rs) : ~rs[i].success
             THEN <<[line |-> "Critical Issues:"]>> \o IssueLines(rs, 1)
             ELSE <<>>)

-----------------------------------------------------------------------------
(* DataQualityMonitor.save_metrics: monitoring/metrics/quality_metrics_<ts>.json *)

MetricsFile(m) == [name |-> m.timestamp, content |-> m]

\* open(metrics_file, 'w') truncates a file of the same name
SaveMetrics(fs, m) == {f \in fs : f.name # m.timestamp} \cup {MetricsFile(m)}

-----------------------------------------------------------------------------
(* AlertManager *)

ObserverIds == 1..2

AddObserverTo(obs, observer) == Append(obs, observer)

RECURSIVE NotifyFrom(_, _, _, _)
\* the loop of notify_observers from position i; `failing` are the observers
\* whose handle_alert raises: [calls, raised]
NotifyFrom(obs, i, m, failing) ==
    IF i > Len(obs)
    THEN [calls |-> <<>>, raised |-> FALSE]
    ELSE IF obs[i] \in failing
    THEN [calls |-> <<[observer |-> obs[i], metrics |-> m]>>, raised |-> TRUE]
    ELSE LET rest == NotifyFrom(obs, i + 1, m, failing)
         IN  [calls |-> <<[observer |-> obs[i], metrics |-> m]>> \o rest.calls,
              raised |-> rest.raised]

NotifyObservers(obs, m, failing) == NotifyFrom(obs, 1, m, failing)

-----------------------------------------------------------------------------
(* Specification Spec: DataQualityMonitor.monitor, called repeatedly *)

Const(n, cell) == [i \in 1..n |-> cell]
FirstThen(n, first, cell) == [i \in 1..n |-> IF i = 1 THEN first ELSE cell]

\* sample key, date and ROI columns of n rows
KeySamples(n) ==
    { [record_id |-> NoColumn, campaign_id |-> NoColumn],
      [record_id |-> Present(FALSE, [i \in 1..n |-> Val(i)]),
       campaign_id |-> Present(FALSE, Const(n, Val(1)))],
      [record_id |-> Present(FALSE, Const(n, Val(1))),
       campaign_id |-> Present(FALSE, Const(n, Val(1)))] }
DateSamples(n) ==
    { [campaign_date |-> d, ingestion_timestamp |-> d] :
        d \in {NoColumn,
               Present(FALSE, Const(n, Val(DateFloor))),
               Present(FALSE, FirstThen(n, Null, Val(DateFloor))),
               Present(FALSE, FirstThen(n, Val(FutureEdge), Val(DateFloor)))} }
RoiSamples(n) ==
    { [return_on_ad_spend |-> r] :
        r \in {NoColumn,
               Present(FALSE, Const(n, Val(RoiMin))),
               Present(FALSE, FirstThen(n, Val(RoiMax + 1), Val(RoiMax))),
               Present(FALSE, FirstThen(n, Text, Val(RoiMax)))} }

\* f and g are functions on disjoint sets of column names
Merge(f, g) == [c \in DOMAIN f \cup DOMAIN g |-> IF c \in DOMAIN f THEN f[c] ELSE g[c]]

MonitorDatasets ==
    UNION { { Frame(n, Merge(k, Merge(d, r))) :
                k \in KeySamples(n), d \in DateSamples(n), r \in RoiSamples(n) }
            : n \in {0, MaxRows} }

MonitorConfigs ==
    { DefaultConfig,
      Config(Opt(100), Opt(DefaultCritical), Opt(50)),
      Config(Opt(DefaultCritical), Opt(DefaultWarning), NotGiven) }

\* self.validation_rules, built once by __init__
ValidationRules == InitializeRules(config)

Init ==
    /\ RulesIdle /\ AggIdle /\ FactoryIdle /\ SchemaIdle
    /\ saved = <<>> /\ cfgfile = NoFile
    /\ config \in MonitorConfigs
    /\ observers = <<>>
    /\ clock = 0
    /\ files = {}
    /\ pc = "idle"
    /\ loaded = "none" /\ invoked = <<>> /\ results = <<>> /\ metrics = None
    /\ report = <<>> /\ ret = None /\ runs = 0 /\ calls = <<>> /\ notified = NotNotified

\* time passes
Tick ==
    /\ clock < MaxClock
    /\ clock' = clock + 1
    /\ UNCHANGED <<config, observers, files, pc, loaded, invoked, results, metrics, report,
                   ret, runs, calls, notified>>
    /\ UNCHANGED <<saved, cfgfile>>
    /\ UNCHANGED ruleVars /\ UNCHANGED aggVars /\ UNCHANGED factoryVars /\ UNCHANGED schemaVars

\* the caller enters monitor(), at most limit times in one behaviour
MonitorCallUpTo(limit) ==
    /\ pc = "idle"
    /\ runs < limit
    /\ runs' = runs + 1
    /\ pc' = "validate"
    /\ loaded' = "none" /\ invoked' = <<>> /\ results' = <<>> /\ metrics' = None
    /\ report' = <<>> /\ ret' = None /\ calls' = <<>> /\ notified' = NotNotified
    /\ UNCHANGED <<config, observers, clock, files>>
    /\ UNCHANGED <<saved, cfgfile>>
    /\ UNCHANGED ruleVars /\ UNCHANGED aggVars /\ UNCHANGED factoryVars /\ UNCHANGED schemaVars

MonitorCall == MonitorCallUpTo(MaxRuns)

\* results = self.validate_data(data_path); if not results: return None
\* ruleLists are the lists that self.validation_rules may hold at the call
ValidateDataStepWith(ruleLists, sources) ==
    /\ pc = "validate"
    /\ \E rules \in ruleLists, source \in sources :
         LET v == ValidateData(rules, source, clock)
         IN  /\ results' = v.results
             /\ invoked' = v.invoked
             /\ loaded' = IF Loaded(source) THEN "yes" ELSE "no"
             /\ pc' = IF v.results = <<>> THEN "returned" ELSE "calculate"
    /\ UNCHANGED <<config, observers, clock, files, metrics, report, ret, runs,
                   calls, notified>>
    /\ UNCHANGED <<saved, cfgfile>>
    /\ UNCHANGED ruleVars /\ UNCHANGED aggVars /\ UNCHANGED factoryVars /\ UNCHANGED schemaVars

ValidateDataStep(sources) == ValidateDataStepWith({ValidationRules}, sources)

\* metrics = self.calculate_metrics(results); if not metrics: return None
CalculateMetricsStep ==
    /\ pc = "calculate"
    /\ \E now_ts \in {clock, clock + 1} :
         /\ now_ts <= MaxClock
         /\ clock' = now_ts
         /\ metrics' = CalculateMetrics(results, config, clock, now_ts)
         /\ pc' = IF metrics' = None THEN "returned" ELSE "report"
    /\ UNCHANGED <<config, observers, files, loaded, invoked, results, report, ret, runs,
                   calls, notified>>
    /\ UNCHANGED <<saved, cfgfile>>
    /\ UNCHANGED ruleVars /\ UNCHANGED aggVars /\ UNCHANGED factoryVars /\ UNCHANGED schemaVars

\* report = self.generate_report(metrics, results); print(report)
GenerateReportStep ==
    /\ pc = "report"
    /\ report' = GenerateReport(metrics, results)
    /\ pc' = "save"
    /\ UNCHANGED <<config, observers, clock, files, loaded, invoked, results, metrics, ret,
                   runs, calls, notified>>
    /\ UNCHANGED <<saved, cfgfile>>
    /\ UNCHANGED ruleVars /\ UNCHANGED aggVars /\ UNCHANGED factoryVars /\ UNCHANGED schemaVars

\* metrics_file = self.save_metrics(metrics): mkdir, open and json.dump either
\* succeed or raise OSError, which monitor() does not catch
SaveMetricsStep ==
    /\ pc = "save"
    /\ \E written \in BOOLEAN :
         IF written
         THEN /\ files' = SaveMetrics(files, metrics)
              /\ saved' = Append(saved, metrics)
              /\ pc' = "log"
              /\ ret' = ret
         ELSE /\ files' = files
              /\ saved' = saved
              /\ pc' = "raised"
              /\ ret' = [exception |-> "OSError"]
    /\ UNCHANGED <<config, observers, clock, loaded, invoked, results, metrics, report, runs,
                   calls, notified>>
    /\ UNCHANGED cfgfile
    /\ UNCHANGED ruleVars /\ UNCHANGED aggVars /\ UNCHANGED factoryVars /\ UNCHANGED schemaVars

\* the closing log lines; return metrics
ReturnMetrics ==
    /\ pc = "log"
    /\ ret' = metrics
    /\ pc' = "returned"
    /\ UNCHANGED <<config, observers, clock, files, loaded, invoked, results, metrics, report,
                   runs, calls, notified>>
    /\ UNCHANGED <<saved, cfgfile>>
    /\ UNCHANGED ruleVars /\ UNCHANGED aggVars /\ UNCHANGED factoryVars /\ UNCHANGED schemaVars

\* the caller has the return value (or the exception) and goes on; the
\* locals of monitor() are gone
Resume ==
    /\ pc \in {"returned", "raised"}
    /\ pc' = "idle"
    /\ loaded' = "none" /\ invoked' = <<>> /\ results' = <<>> /\ metrics' = None
    /\ report' = <<>>
    /\ UNCHANGED <<config, observers, clock, files, ret, runs, calls, notified>>
    /\ UNCHANGED <<saved, cfgfile>>
    /\ UNCHANGED ruleVars /\ UNCHANGED aggVars /\ UNCHANGED factoryVars /\ UNCHANGED schemaVars

\* alert_manager.add_observer(observer)
AddObserver ==
    /\ pc = "idle"
    /\ Len(observers) < MaxObservers
    /\ \E o \in ObserverIds : observers' = AddObserverTo(observers, o)
    /\ UNCHANGED <<config, clock, files, pc, loaded, invoked, results, metrics, report, ret,
                   runs, calls, notified>>
    /\ UNCHANGED <<saved, cfgfile>>
    /\ UNCHANGED ruleVars /\ UNCHANGED aggVars /\ UNCHANGED factoryVars /\ UNCHANGED schemaVars

IsVerdict(m) == "run_id" \in DOMAIN m

\* alert_manager.notify_observers(metrics), with the verdict monitor() returned
Notify ==
    /\ pc = "idle"
    /\ IsVerdict(ret)
    /\ \E failing \in SUBSET ObserverIds :
         LET n == NotifyObservers(observers, ret, failing)
         IN  /\ calls' = n.calls
             /\ notified' = [outcome |-> IF n.raised THEN "raised" ELSE "returned",
                              observers |-> observers, metrics |-> ret]
    /\ UNCHANGED <<config, observers, clock, files, pc, loaded, invoked, results, metrics,
                   report, ret, runs>>
    /\ UNCHANGED <<saved, cfgfile>>
    /\ UNCHANGED ruleVars /\ UNCHANGED aggVars /\ UNCHANGED factoryVars /\ UNCHANGED schemaVars

Next ==
    \/ Tick
    \/ MonitorCall
    \/ ValidateDataStep(MonitorDatasets \cup {LoadError})
    \/ CalculateMetricsStep
    \/ GenerateReportStep
    \/ SaveMetricsStep
    \/ ReturnMetrics
    \/ Resume

Spec == Init /\ [][Next]_vars

-----------------------------------------------------------------------------
(* Specification SpecAlert: the monitor with observers registered on its  *)
(* AlertManager, and the caller notifying them                            *)

AlertDatasets ==
    { Frame(MaxRows, Merge(k, Merge(d, r))) :
        k \in {x \in KeySamples(MaxRows) : x.record_id.present},
        d \in {x \in DateSamples(MaxRows) : x.campaign_date = Present(FALSE, Const(MaxRows, Val(DateFloor)))},
        r \in {x \in RoiSamples(MaxRows) : x.return_on_ad_spend.present} }

InitAlert == Init /\ config = DefaultConfig

NextAlert ==
    \/ MonitorCall
    \/ ValidateDataStep(AlertDatasets \cup {LoadError})
    \/ CalculateMetricsStep
    \/ GenerateReportStep
    \/ SaveMetricsStep
    \/ ReturnMetrics
    \/ Resume
    \/ AddObserver
    \/ Notify

SpecAlert == InitAlert /\ [][NextAlert]_vars

-----------------------------------------------------------------------------
(* Specification SpecInit: DataQualityMonitor(config_path) is constructed  *)
(* over a configuration file, then called                                  *)

FileConfigs ==
    MonitorConfigs \cup
    { ConfigWithRoi(NotGiven, NotGiven, Opt(50), Opt(1), Opt(RoiClassMax)) }

ConfigFiles == {Missing, Empty} \cup { Content(cfg) : cfg \in FileConfigs }

\* DataQualityMonitor.__init__: self.config.get(...) on None raises
Constructor(file) ==
    LET cfg == LoadConfig(file)
    IN  IF cfg = None
        THEN [raised |-> TRUE, error |-> "AttributeError", config |-> None]
        ELSE [raised |-> FALSE, error |-> "", config |-> cfg]

InitConstruct ==
    /\ RulesIdle /\ AggIdle /\ FactoryIdle /\ SchemaIdle
    /\ saved = <<>> /\ cfgfile \in ConfigFiles
    /\ config = None
    /\ observers = <<>>
    /\ clock = 0
    /\ files = {}
    /\ pc = "new"
    /\ loaded = "none" /\ invoked = <<>> /\ results = <<>> /\ metrics = None
    /\ report = <<>> /\ ret = None /\ runs = 0 /\ calls = <<>> /\ notified = NotNotified

\* monitor = DataQualityMonitor(config_path)
ConstructStep ==
    /\ pc = "new"
    /\ LET made == Constructor(cfgfile)
       IN  /\ config' = made.config
           /\ pc' = IF made.raised THEN "init_failed" ELSE "idle"
           /\ ret' = IF made.raised THEN [exception |-> made.error] ELSE ret
    /\ UNCHANGED <<observers, clock, files, loaded, invoked, results, metrics, report, runs,
                   calls, notified>>
    /\ UNCHANGED <<saved, cfgfile>>
    /\ UNCHANGED ruleVars /\ UNCHANGED aggVars /\ UNCHANGED factoryVars /\ UNCHANGED schemaVars

Constructed == pc \notin {"new", "init_failed"}

NextInit ==
    \/ ConstructStep
    \/ MonitorCall
    \/ ValidateDataStep(AlertDatasets \cup {LoadError})
    \/ CalculateMetricsStep
    \/ GenerateReportStep
    \/ SaveMetricsStep
    \/ ReturnMetrics
    \/ Resume

SpecInit == InitConstruct /\ [][NextInit]_vars

-----------------------------------------------------------------------------
(* Specification SpecLists: monitor() on a monitor whose validation_rules   *)
(* attribute holds any non-empty sub-list of the rules __init__ built, so   *)
(* that a run in which every rule of the list raises occurs                 *)

RECURSIVE Pick(_, _, _)
\* the rules at the positions in keep, in their order
Pick(rules, i, keep) ==
    IF i > Len(rules) THEN <<>>
    ELSE (IF i \in keep THEN <<rules[i]>> ELSE <<>>) \o Pick(rules, i + 1, keep)

RuleLists ==
    {Pick(ValidationRules, 1, keep) : keep \in (SUBSET (1..Len(ValidationRules))) \ {{}}}

NextLists ==
    \/ Tick
    \/ MonitorCall
    \/ ValidateDataStepWith(RuleLists, MonitorDatasets \cup {LoadError})
    \/ CalculateMetricsStep
    \/ GenerateReportStep
    \/ SaveMetricsStep
    \/ ReturnMetrics
    \/ Resume

SpecLists == Init /\ [][NextLists]_vars

-----------------------------------------------------------------------------
(* Specification SpecRuns: the same monitor called again and again, the    *)
(* calls possibly falling into one clock second                            *)

InitRuns == Init /\ config = DefaultConfig

NextRuns ==
    \/ Tick
    \/ MonitorCallUpTo(MaxRepeat)
    \/ ValidateDataStep(AlertDatasets)
    \/ CalculateMetricsStep
    \/ GenerateReportStep
    \/ SaveMetricsStep
    \/ ReturnMetrics
    \/ Resume

SpecRuns == InitRuns /\ [][NextRuns]_vars

-----------------------------------------------------------------------------
(* Specification SpecPar: the rules of one validate_data call executed as  *)
(* independent tasks that finish in any order while the clock runs; the    *)
(* results are put back into configuration order and aggregated            *)

ParDatasets == { d \in MonitorDatasets : Rows(d) = MaxRows }

InitPar ==
    /\ AggIdle /\ FactoryIdle /\ SchemaIdle
    /\ rrule = NoRule /\ rout = Idle /\ rout2 = Idle
    /\ rdata \in ParDatasets
    /\ saved = <<>> /\ cfgfile = NoFile
    /\ config \in MonitorConfigs
    /\ observers = <<>>
    /\ clock = 0
    /\ files = {}
    /\ pc = "fanout"
    /\ loaded = "yes" /\ invoked = <<>> /\ results = <<>> /\ metrics = None
    /\ report = <<>> /\ ret = None /\ runs = 1 /\ calls = <<>> /\ notified = NotNotified

\* one rule's try: result = rule.validate(data) except: log, run by a task
\* of its own; a rule reads the frame and the clock and writes nothing shared
RunOneRule ==
    /\ pc = "fanout"
    /\ \E i \in 1..Len(ValidationRules) :
         /\ \A k \in 1..Len(invoked) : invoked[k].rule # ValidationRules[i].kind
         /\ invoked' = Append(invoked, [rule |-> ValidationRules[i].kind,
                                        out |-> Validate(ValidationRules[i], rdata, clock)])
    /\ UNCHANGED <<config, observers, clock, files, pc, loaded, results, metrics, report, ret,
                   runs, calls, notified>>
    /\ UNCHANGED <<saved, cfgfile>>
    /\ UNCHANGED ruleVars /\ UNCHANGED aggVars /\ UNCHANGED factoryVars /\ UNCHANGED schemaVars

RECURSIVE RestoreOrder(_, _, _)
\* the results of the rules that returned one, in the order of the rule list
RestoreOrder(rules, i, log) ==
    IF i > Len(rules) THEN <<>>
    ELSE LET e == CHOOSE x \in SeqToSet(log) : x.rule = rules[i].kind
         IN  (IF e.out.raised THEN <<>> ELSE <<e.out.result>>)
             \o RestoreOrder(rules, i + 1, log)

\* all tasks are done: return the results in configuration order
Gather ==
    /\ pc = "fanout"
    /\ Len(invoked) = Len(ValidationRules)
    /\ results' = RestoreOrder(ValidationRules, 1, invoked)
    /\ pc' = IF results' = <<>> THEN "returned" ELSE "calculate"
    /\ UNCHANGED <<config, observers, clock, files, loaded, invoked, metrics, report, ret,
                   runs, calls, notified>>
    /\ UNCHANGED <<saved, cfgfile>>
    /\ UNCHANGED ruleVars /\ UNCHANGED aggVars /\ UNCHANGED factoryVars /\ UNCHANGED schemaVars

\* the results in the order the tasks finished
Arrived(log) ==
    LET Returned(e) == ~e.out.raised
        kept == SelectSeq(log, Returned)
    IN  [k \in 1..Len(kept) |-> kept[k].out.result]

NextPar ==
    \/ Tick
    \/ RunOneRule
    \/ Gather
    \/ CalculateMetricsStep

SpecPar == InitPar /\ [][NextPar]_vars

-----------------------------------------------------------------------------
(* Specification SpecAgg: calculate_metrics on two result sequences under *)
(* the same thresholds                                                    *)

RuleNames == <<"completeness", "uniqueness", "date_validity", "roi_threshold">>
NameAt(i) == IF i <= Len(RuleNames) THEN RuleNames[i] ELSE "custom"

\* a result of the rule at position i of the configuration
ResultAt(i, success) ==
    ValidationResult(NameAt(i), success, IF success THEN Frac(100, 1) ELSE Frac(0, 1),
                     <<>>, <<>>)

ResultSequences ==
    UNION { { [i \in 1..n |-> ResultAt(i, flags[i])] : flags \in [1..n -> BOOLEAN] }
            : n \in 0..MaxChecks }

AggThresholds == {NotGiven, Opt(0), Opt(50), Opt(75), Opt(80), Opt(100)}

InitAgg ==
    /\ RulesIdle /\ FactoryIdle /\ SchemaIdle
    /\ saved = <<>> /\ cfgfile = NoFile
    /\ \E w \in AggThresholds, c \in AggThresholds : config = Config(w, c, NotGiven)
    /\ observers = <<>> /\ clock = 0 /\ files = {} /\ pc = "off"
    /\ loaded = "none" /\ invoked = <<>> /\ results = <<>> /\ metrics = None
    /\ report = <<>> /\ ret = None /\ runs = 0 /\ calls = <<>> /\ notified = NotNotified
    /\ aresA \in ResultSequences
    /\ aresB \in ResultSequences
    /\ averA = Idle /\ averB = Idle

\* metrics = self.calculate_metrics(results), for each of the two sequences
Aggregate ==
    /\ averA = Idle
    /\ averA' = CalculateMetrics(aresA, config, clock, clock)
    /\ averB' = CalculateMetrics(aresB, config, clock, clock)
    /\ UNCHANGED <<aresA, aresB>>
    /\ UNCHANGED monitorVars /\ UNCHANGED ruleVars /\ UNCHANGED factoryVars /\ UNCHANGED schemaVars

NextAgg == Aggregate

SpecAgg == InitAgg /\ [][NextAgg]_vars

-----------------------------------------------------------------------------
(* Specification SpecFactory: register_rule and create_rule calls in any order *)

FactoryNames == {"completeness", "roi_threshold", "custom"}
FactoryClasses == {"completeness", "roi_threshold", "custom"}
FactoryKinds == FactoryNames \cup {"unknown"}
NoKwargs == [k \in {} |-> 0]
KwargsSamples ==
    { NoKwargs,
      [threshold |-> 5],
      [roi_column |-> "return_on_ad_spend"],
      [roi_column |-> "roas", min_threshold |-> 1, max_threshold |-> 2],
      [level |-> 1] }

InitFactory == MonitorIdle /\ RulesIdle /\ AggIdle /\ FactoryIdle /\ SchemaIdle /\ clock = 0

\* ValidationRuleFactory.register_rule(name, rule_class)
RegisterRuleStep ==
    /\ \E name \in FactoryNames, rule_class \in FactoryClasses :
         /\ registry' = RegisterRule(registry, name, rule_class)
         /\ registered' = [name |-> name, rule_class |-> rule_class, before |-> registry]
    /\ created' = Idle
    /\ UNCHANGED monitorVars /\ UNCHANGED ruleVars /\ UNCHANGED aggVars
    /\ UNCHANGED schemaVars

\* ValidationRuleFactory.create_rule(rule_type, **kwargs)
CreateRuleStep ==
    /\ \E rule_type \in FactoryKinds, kwargs \in KwargsSamples :
         created' = [rule_type |-> rule_type, kwargs |-> kwargs, registry |-> registry,
                     out |-> CreateRule(registry, rule_type, kwargs)]
    /\ UNCHANGED <<registry, registered>>
    /\ UNCHANGED monitorVars /\ UNCHANGED ruleVars /\ UNCHANGED aggVars
    /\ UNCHANGED schemaVars

NextFactory == RegisterRuleStep \/ CreateRuleStep

SpecFactory == InitFactory /\ [][NextFactory]_vars

-----------------------------------------------------------------------------
(* Fraud_detection_pipeline/scripts/load_data.py: validate_schema          *)

REQUIRED_COLUMNS ==
    <<"trans_num", "trans_date_trans_time", "cc_num", "merchant", "category",
      "amt", "first", "last", "gender", "street", "city", "state", "zip",
      "lat", "long", "city_pop", "job", "dob", "unix_time", "merch_lat",
      "merch_long", "is_fraud">>

\* a frame with columns beyond the required ones is refused as well
ValidateSchemaExact(df) ==
    IF SeqToSet(REQUIRED_COLUMNS) # df.columns
    THEN [raised |-> TRUE, error |-> "ValueError", message |-> "Missing required columns",
          missing |-> SeqToSet(REQUIRED_COLUMNS) \ df.columns]
    ELSE [raised |-> FALSE, error |-> "", message |-> "", missing |-> {}]

\* validate_schema(df): raise ValueError(f"Missing required columns: ...") or return None
ValidateSchema(df) ==
    LET missing_columns == SeqToSet(REQUIRED_COLUMNS) \ df.columns
    IN  IF missing_columns # {}
        THEN [raised |-> TRUE, error |-> "ValueError", message |-> "Missing required columns",
              missing |-> missing_columns]
        ELSE [raised |-> FALSE, error |-> "", message |-> "", missing |-> {}]

\* the frames: the required columns without some of these, with some extra ones
Droppable == {"trans_num", "amt", "merchant", "is_fraud"}
ExtraColumns == {"extra_column_1", "extra_column_2"}
SchemaFrames ==
    { [columns |-> (SeqToSet(REQUIRED_COLUMNS) \ d) \cup e, nrows |-> n] :
        d \in SUBSET Droppable, e \in SUBSET ExtraColumns, n \in 0..MaxRows }
    \cup { [columns |-> {"trans_num", "amt", "merchant"}, nrows |-> 0], NoFrame }

InitSchema ==
    /\ MonitorIdle /\ RulesIdle /\ AggIdle /\ FactoryIdle /\ clock = 0
    /\ sframe \in SchemaFrames
    /\ sout = Idle

\* validate_schema(df)
ValidateSchemaStep ==
    /\ sout = Idle
    /\ sout' = ValidateSchema(sframe)
    /\ UNCHANGED sframe
    /\ UNCHANGED monitorVars /\ UNCHANGED ruleVars /\ UNCHANGED aggVars /\ UNCHANGED factoryVars

NextSchema == ValidateSchemaStep

SpecSchema == InitSchema /\ [][NextSchema]_vars

Rank(status) ==
    CASE status = "CRITICAL" -> 0
      [] status = "WARNING" -> 1
      [] status = "PASSING" -> 2

-----------------------------------------------------------------------------
(* C2: every ValidationResult returned by validate() of the four rules has *)
(* a score in [0, 100], for every dataset and rule configuration.          *)
C2_ScoreInRange ==
    (rout # Idle /\ ~rout.raised) => ScoreInRange(rout.result)

-----------------------------------------------------------------------------
(* C1: in validate_data, once the dataset is loaded, every configured rule *)
(* is invoked exactly once, in configuration order, whichever rules raise; *)
(* the results returned are exactly the results of the rules that did not  *)
(* raise, and no result carries the name of a rule that raised.            *)
C1_IsolateAndContinue ==
    loaded = "yes" =>
        /\ Len(invoked) = Len(ValidationRules)
        /\ \A i \in 1..Len(invoked) : invoked[i].rule = ValidationRules[i].kind
        /\ Len(results) = Cardinality({i \in 1..Len(invoked) : ~invoked[i].out.raised})
        /\ \A i \in 1..Len(invoked) :
             IF invoked[i].out.raised
             THEN \A j \in 1..Len(results) : results[j].rule_name # invoked[i].rule
             ELSE Cardinality({j \in 1..Len(results) : results[j] = invoked[i].out.result}) = 1

\* a run in which the second rule raised and the rules after it still returned results
C1_Witness ==
    /\ loaded = "yes"
    /\ Len(invoked) = 4
    /\ invoked[2].out.raised
    /\ ~invoked[3].out.raised /\ ~invoked[4].out.raised
    /\ Len(results) = 3

(* C3: whenever monitor() is about to return a verdict, every observer     *)
(* registered on the AlertManager has been notified with that verdict.     *)
C3_ObserversNotified ==
    (pc = "returned" /\ IsVerdict(ret)) =>
        \A i \in 1..Len(observers) :
            \E j \in 1..Len(calls) :
                calls[j] = [observer |-> observers[i], metrics |-> ret]

(* C4: when an observer's handler raises in notify_observers, the observers *)
(* registered after it are still invoked with the verdict.                  *)
C4_LaterObserversStillNotified ==
    notified.outcome = "raised" =>
        \A i \in 1..Len(notified.observers) :
            /\ i <= Len(calls)
            /\ calls[i].observer = notified.observers[i]
            /\ calls[i].metrics = notified.metrics

(* C5: a notify_observers call invokes every registered observer exactly   *)
(* once, with the same verdict, in registration order.                     *)
C5_EveryObserverOnceInOrder ==
    notified.outcome # "none" =>
        calls = [i \in 1..Len(notified.observers) |->
                    [observer |-> notified.observers[i], metrics |-> notified.metrics]]

(* C6: once validate_data has produced at least one result, monitor() ends  *)
(* by returning a verdict; no later failure makes it end with an exception. *)
C6_NoAbortAfterResult ==
    (results # <<>> /\ pc \in {"returned", "raised"}) =>
        (pc = "returned" /\ IsVerdict(ret) /\ ret.total_checks = Len(results))

(* C7: when loading the dataset fails, no rule's validate() is executed, no *)
(* verdict is produced, no metrics record is persisted by the run, and the  *)
(* run ends with None, not with a CRITICAL verdict.                         *)
C7_LoadFailure ==
    /\ [](loaded = "no" =>
            /\ invoked = <<>>
            /\ results = <<>>
            /\ metrics = None
            /\ pc = "returned"
            /\ ret = None)
    /\ [][(loaded' = "no" \/ loaded = "no") => files' = files]_vars

\* a run whose dataset could not be loaded
C7_Witness == loaded = "no" /\ pc = "returned" /\ runs > 0

(* C8: for every non-empty result sequence, calculate_metrics returns a     *)
(* verdict with passed + failed = total = len(results) and a success rate   *)
(* in [0, 100].                                                             *)
C8_CountsAndRate ==
    (averA # Idle /\ aresA # <<>>) =>
        /\ IsVerdict(averA)
        /\ averA.passed_checks + averA.failed_checks = averA.total_checks
        /\ averA.total_checks = Len(aresA)
        /\ averA.success_rate.den > 0
        /\ 0 <= averA.success_rate.num
        /\ averA.success_rate.num <= 100 * averA.success_rate.den

\* a verdict over several results, some passing and some failing
C8_Witness ==
    /\ averA # Idle /\ Len(aresA) >= 3
    /\ averA.passed_checks > 0 /\ averA.failed_checks > 0

(* C9: status is PASSING when success_rate >= warning threshold, otherwise  *)
(* WARNING when success_rate >= critical threshold, otherwise CRITICAL;     *)
(* with warning = 80 and critical = 50, 3 passing results of 4 give rate 75 *)
(* and WARNING.                                                             *)
C9_Classification ==
    (averA # Idle /\ aresA # <<>>) =>
        LET w == Get(config.warning, DefaultWarning)
            c == Get(config.critical, DefaultCritical)
            r == averA.success_rate
        IN  /\ (r.num >= w * r.den) => averA.overall_status = "PASSING"
            /\ (r.num < w * r.den /\ r.num >= c * r.den) => averA.overall_status = "WARNING"
            /\ (r.num < w * r.den /\ r.num < c * r.den) => averA.overall_status = "CRITICAL"
            /\ (w = 80 /\ c = 50 /\ Len(aresA) = 4 /\ averA.passed_checks = 3) =>
                   (r.num = 75 * r.den /\ averA.overall_status = "WARNING")

\* the example: thresholds 80 / 50, four results, three of them passing
C9_Witness ==
    /\ averA # Idle
    /\ config.warning = Opt(80) /\ config.critical = Opt(50)
    /\ Len(aresA) = 4 /\ averA.passed_checks = 3
    /\ averA.overall_status = "WARNING"

(* C10: for fixed thresholds (critical > warning included), a result        *)
(* sequence with a strictly higher success rate never gets a worse status   *)
(* under CRITICAL < WARNING < PASSING.                                      *)
C10_Monotonic ==
    (averA # Idle /\ aresA # <<>> /\ aresB # <<>>
       /\ FracGt(averA.success_rate, averB.success_rate)) =>
        Rank(averA.overall_status) >= Rank(averB.overall_status)

\* thresholds with critical > warning, A strictly better than B, statuses differ
C10_Witness ==
    /\ averA # Idle /\ aresA # <<>> /\ aresB # <<>>
    /\ Get(config.critical, DefaultCritical) > Get(config.warning, DefaultWarning)
    /\ FracGt(averA.success_rate, averB.success_rate)
    /\ Rank(averA.overall_status) > Rank(averB.overall_status)

(* C11: on an empty result sequence calculate_metrics returns None, never a *)
(* verdict with total_checks = 0.                                           *)
C11_EmptyGivesNone ==
    /\ (averA # Idle /\ aresA = <<>>) => averA = None
    /\ (averA # Idle /\ IsVerdict(averA)) => averA.total_checks > 0

\* calculate_metrics was applied to the empty sequence and answered None
C11_Witness == averA = None /\ aresA = <<>> /\ averB # Idle /\ IsVerdict(averB)

(* C12: the sequence validate_data returns keeps the configuration order of *)
(* the rules: of two results, the earlier one belongs to the rule that      *)
(* comes earlier in validation_rules, whichever other rules raised.         *)
C12_ConfigurationOrder ==
    loaded = "yes" =>
        \A i, j \in 1..Len(results) :
            i < j =>
                \E a, b \in 1..Len(ValidationRules) :
                    /\ a < b
                    /\ ValidationRules[a].kind = results[i].rule_name
                    /\ ValidationRules[b].kind = results[j].rule_name

\* the last rule raised and the three before it returned their results
C12_Witness ==
    /\ loaded = "yes"
    /\ Len(invoked) = 4
    /\ invoked[4].out.raised
    /\ Len(results) = 3
    /\ results[1].rule_name = "completeness"
    /\ results[3].rule_name = "date_validity"

-----------------------------------------------------------------------------
(* C14: create_rule with a kind that is not registered fails with a        *)
(* ValueError naming the kind, constructs no rule and leaves the registry  *)
(* as it was; with a registered kind whose constructor accepts the given   *)
(* parameters it returns an instance of the registered class carrying      *)
(* exactly those parameters.                                               *)
C14_CreateRule ==
    created # Idle =>
        IF created.rule_type \notin DOMAIN created.registry
        THEN /\ created.out.raised
             /\ created.out.error = "ValueError"
             /\ created.out.names = created.rule_type
             /\ created.out.rule = NoRule
             /\ registry = created.registry
        ELSE Accepts(created.registry[created.rule_type], created.kwargs) =>
                /\ ~created.out.raised
                /\ created.out.rule.kind = created.registry[created.rule_type]
                /\ \A k \in DOMAIN created.kwargs : created.out.rule[k] = created.kwargs[k]

C14_Witness ==
    /\ created # Idle
    /\ "custom" \in DOMAIN registry
    /\ created.rule_type = "unknown"
    /\ created.out.raised

-----------------------------------------------------------------------------
(* C15: after register_rule(name, rule_class) the registry maps name to    *)
(* rule_class and every other name to the class it had; a name that was    *)
(* registered before, a built-in one included, is replaced; create_rule of *)
(* that name then builds an instance of rule_class.                        *)
C15_RegisterRule ==
    registered # Idle =>
        /\ DOMAIN registry = DOMAIN registered.before \cup {registered.name}
        /\ registry[registered.name] = registered.rule_class
        /\ \A n \in DOMAIN registered.before \ {registered.name} :
               registry[n] = registered.before[n]
        /\ (/\ created # Idle
            /\ created.rule_type = registered.name
            /\ Accepts(registered.rule_class, created.kwargs))
           => (~created.out.raised /\ created.out.rule.kind = registered.rule_class)

C15_Witness ==
    /\ registered # Idle
    /\ registered.name = "completeness"
    /\ registered.rule_class = "custom"
    /\ registered.before["completeness"] = "completeness"
    /\ created # Idle
    /\ created.rule_type = "completeness"
    /\ ~created.out.raised
    /\ created.out.rule.kind = "custom"

-----------------------------------------------------------------------------
(* C13: every monitoring run has a run_id of its own and a persisted       *)
(* record of its own: the records on disk are as many as the runs that     *)
(* saved one, each is still there as it was written, and no two runs share *)
(* a run_id, also when they fall into the same clock second.               *)
C13_DistinctRuns ==
    /\ Cardinality(files) = Len(saved)
    /\ \A i \in 1..Len(saved) : \E f \in files : f.content = saved[i]
    /\ \A i, j \in 1..Len(saved) : i # j => saved[i].run_id # saved[j].run_id

-----------------------------------------------------------------------------
(* C16: a monitor is never constructed over thresholds that violate        *)
(* critical <= warning: such a configuration is flagged when the monitor   *)
(* is constructed, before any run.                                         *)
C16_ThresholdsOrdered ==
    Constructed =>
        Get(config.critical, DefaultCritical) <= Get(config.warning, DefaultWarning)

-----------------------------------------------------------------------------
(* C17: a rule parameter given under data_quality_rules.<kind> in the      *)
(* configuration is the parameter bound into the rule of that kind:        *)
(* completeness.missing_threshold, roi_threshold.min and roi_threshold.max *)
C17_ConfiguredParametersBound ==
    Constructed =>
        /\ config.missing_threshold.given =>
               ValidationRules[1].threshold = config.missing_threshold.v
        /\ config.roi_min.given => ValidationRules[4].min_threshold = config.roi_min.v
        /\ config.roi_max.given => ValidationRules[4].max_threshold = config.roi_max.v

-----------------------------------------------------------------------------
(* C18: over a configuration file that does not exist or holds no content  *)
(* construction does not fail, the monitor has the default rule-set and    *)
(* the thresholds are warning 80 and critical 50.                          *)
C18_AbsentConfigGivesDefaults ==
    (cfgfile.state \in {"missing", "empty"} /\ pc # "new") =>
        /\ pc # "init_failed"
        /\ ValidationRules = InitializeRules(DefaultConfig)
        /\ Get(config.warning, DefaultWarning) = DefaultWarning
        /\ Get(config.critical, DefaultCritical) = DefaultCritical

-----------------------------------------------------------------------------
(* C19: applying the same rule twice to the same dataset gives the same    *)
(* outcome both times: identical success, score and details, for every     *)
(* rule kind, DateValidityRule and its reading of the clock included.      *)
C19_Idempotent ==
    rout2 # Idle =>
        /\ rout2.raised = rout.raised
        /\ ~rout.raised =>
               /\ rout2.result.success = rout.result.success
               /\ rout2.result.score = rout.result.score
               /\ rout2.result.details = rout.result.details

-----------------------------------------------------------------------------
(* C20: RoiThresholdRule on a dataset that lacks the configured column, or *)
(* whose column has no non-missing value, does not raise: it returns       *)
(* success false, score 0 and details holding an error entry only.         *)
C20_RoiWithoutValues ==
    (/\ rout # Idle
     /\ rrule.kind = "roi_threshold"
     /\ \/ rrule.roi_column \notin Columns(rdata)
        \/ \A i \in 1..Rows(rdata) : rdata.cols[rrule.roi_column].cells[i].k = "null")
    => /\ ~rout.raised
       /\ ~rout.result.success
       /\ rout.result.score.num = 0 /\ rout.result.score.den > 0
       /\ DOMAIN rout.result.details = {"error"}

C20_Witness ==
    /\ rout # Idle
    /\ rrule.kind = "roi_threshold"
    /\ rrule.roi_column \in Columns(rdata)
    /\ Rows(rdata) = MaxRows
    /\ \A i \in 1..Rows(rdata) : rdata.cols[rrule.roi_column].cells[i].k = "null"
    /\ ~rout.raised
    /\ rout.result.details.error = "No valid ROI values found"

-----------------------------------------------------------------------------
(* C21: on a column with at least one non-missing value, all of them       *)
(* numbers, RoiThresholdRule.validate drops the missing values, counts as  *)
(* outliers exactly the remaining values strictly below min or strictly    *)
(* above max, succeeds iff outliers / valid values <= 5% and scores        *)
(* max(0, 100 - 200 * outliers / valid values); for bounds [0, 3] and the  *)
(* values 1, 2, 10, -1 that is 2 outliers, success false, score 0.         *)
C21_RoiOutliers ==
    (/\ rout # Idle
     /\ rrule.kind = "roi_threshold"
     /\ rrule.roi_column \in Columns(rdata))
    => LET cells == rdata.cols[rrule.roi_column].cells
           valid == {i \in 1..Rows(rdata) : cells[i].k # "null"}
           n == Cardinality(valid)
           outliers == Cardinality({i \in valid :
                          cells[i].v < rrule.min_threshold \/ cells[i].v > rrule.max_threshold})
       IN  (n > 0 /\ \A i \in valid : cells[i].k = "val") =>
              /\ ~rout.raised
              /\ rout.result.details.total_valid_values = n
              /\ rout.result.details.total_outliers = outliers
              /\ rout.result.success <=> (outliers * 100 <= 5 * n)
              /\ rout.result.score.den > 0
              /\ IF 200 * outliers >= 100 * n
                 THEN rout.result.score.num = 0
                 ELSE rout.result.score.num * n = (100 * n - 200 * outliers) * rout.result.score.den
              /\ rdata = RoiExample =>
                    /\ rout.result.details.total_outliers = 2
                    /\ ~rout.result.success
                    /\ rout.result.score.num = 0

C21_Witness ==
    /\ rout # Idle
    /\ rdata = RoiExample
    /\ rrule = RoiThresholdRule("return_on_ad_spend", RoiMin, RoiMax)
    /\ ~rout.raised
    /\ rout.result.details.outliers_below_threshold = 1
    /\ rout.result.details.outliers_above_threshold = 1
    /\ rout.result.details.total_valid_values = 4
    /\ ~rout.result.success

-----------------------------------------------------------------------------
(* C22: CompletenessRule.validate takes the maximum over the columns of    *)
(* the percentage of missing cells, succeeds iff it is <= threshold,       *)
(* scores max(0, 100 - maximum), and gives recommendations iff the result  *)
(* fails; ten rows with three cells missing in one column and threshold 2  *)
(* give 30 percent, success false, score 70.                               *)
C22_Completeness ==
    (rout # Idle /\ rrule.kind = "completeness") =>
        /\ ~rout.raised
        /\ (rout.result.recommendations # <<>>) <=> ~rout.result.success
        /\ (Rows(rdata) > 0 /\ Columns(rdata) # {}) =>
              LET missing == SetMax({Cardinality({i \in 1..Rows(rdata) :
                                        rdata.cols[c].cells[i].k = "null"}) : c \in Columns(rdata)})
                  pct == rout.result.details.missing_percentage
                  score == rout.result.score
              IN  /\ pct.den > 0 /\ pct.num * Rows(rdata) = 100 * missing * pct.den
                  /\ rout.result.success <=> (100 * missing <= rrule.threshold * Rows(rdata))
                  /\ score.den > 0
                  /\ score.num * Rows(rdata) = (100 * Rows(rdata) - 100 * missing) * score.den
        /\ rdata = CompletenessExample =>
              /\ rout.result.details.missing_percentage.num
                    = 30 * rout.result.details.missing_percentage.den
              /\ ~rout.result.success
              /\ rout.result.score.num = 70 * rout.result.score.den

-----------------------------------------------------------------------------
(* C23: on a frame that has the key columns, UniquenessRule.validate       *)
(* counts the rows whose key tuple equals that of an earlier row, succeeds *)
(* iff the count is 0, and scores 100 when it is 0 and                     *)
(* max(0, 100 - count / rows * 100) otherwise; five rows with the fourth   *)
(* repeating the first one's key give count 1, success false, score 80.    *)
C23_Uniqueness ==
    (/\ rout # Idle
     /\ rrule.kind = "uniqueness"
     /\ \A k \in 1..Len(rrule.key_columns) : rrule.key_columns[k] \in Columns(rdata))
    => LET same(i, j) == \A k \in 1..Len(rrule.key_columns) :
                            rdata.cols[rrule.key_columns[k]].cells[i]
                              = rdata.cols[rrule.key_columns[k]].cells[j]
           count == Cardinality({i \in 1..Rows(rdata) : \E j \in 1..(i - 1) : same(i, j)})
           score == rout.result.score
       IN  /\ ~rout.raised
           /\ rout.result.details.duplicate_count = count
           /\ rout.result.success <=> (count = 0)
           /\ score.den > 0
           /\ IF count = 0
              THEN score.num = 100 * score.den
              ELSE /\ score.num >= 0
                   /\ score.num * Rows(rdata) = (100 * Rows(rdata) - 100 * count) * score.den
           /\ rdata = UniquenessExample =>
                 /\ rout.result.details.duplicate_count = 1
                 /\ ~rout.result.success
                 /\ score.num = 80 * score.den

C23_Witness ==
    /\ rout # Idle
    /\ rdata = UniquenessExample
    /\ rrule = UniquenessRule(<<"id">>)
    /\ ~rout.raised
    /\ rout.result.details.duplicate_count = 1
    /\ ~rout.result.success

-----------------------------------------------------------------------------
(* C24: DateValidityRule.validate counts, over the configured date columns *)
(* the frame has and all their rows, each cell that is missing or          *)
(* unparsable, more than max_future_days ahead of the current instant, or  *)
(* earlier than 2000-01-01; each scanned cell is counted at most once, so  *)
(* invalid <= scanned; it succeeds iff invalid = 0 and scores              *)
(* (scanned - invalid) / scanned * 100, or 0 when no cell was scanned.     *)
C24_DateValidity ==
    (rout2 # Idle /\ rrule.kind = "date_validity" /\ Len(rrule.date_columns) = 2) =>
        LET bad(c) == IF c \in Columns(rdata)
                      THEN Cardinality({i \in 1..Rows(rdata) :
                              \/ rdata.cols[c].cells[i].k # "val"
                              \/ rdata.cols[c].cells[i].v
                                    > clock + rrule.max_future_days * SecondsPerDay
                              \/ rdata.cols[c].cells[i].v < DateFloor})
                      ELSE 0
            seen(c) == IF c \in Columns(rdata) THEN Rows(rdata) ELSE 0
            invalid == bad(rrule.date_columns[1]) + bad(rrule.date_columns[2])
            scanned == seen(rrule.date_columns[1]) + seen(rrule.date_columns[2])
            score == rout2.result.score
        IN  /\ ~rout2.raised
            /\ rout2.result.details.total_date_cells = scanned
            /\ rout2.result.details.invalid_dates = invalid
            /\ rout2.result.details.invalid_dates <= rout2.result.details.total_date_cells
            /\ rout2.result.success <=> (rout2.result.details.invalid_dates = 0)
            /\ score.den > 0
            /\ IF scanned = 0
               THEN score.num = 0
               ELSE score.num * scanned = (scanned - invalid) * 100 * score.den

-----------------------------------------------------------------------------
-----------------------------------------------------------------------------
-----------------------------------------------------------------------------
(* C27: validate_schema raises ValueError with "Missing required columns"  *)
(* exactly when a column of REQUIRED_COLUMNS is absent from the frame; a   *)
(* frame with extra columns, or with no rows, that has every required      *)
(* column is accepted.                                                     *)
C27_ValidateSchema ==
    sout # Idle =>
        /\ sout.raised <=>
              (\E i \in 1..Len(REQUIRED_COLUMNS) : REQUIRED_COLUMNS[i] \notin sframe.columns)
        /\ sout.raised => (sout.error = "ValueError" /\ sout.message = "Missing required columns")

C27_Witness ==
    /\ sout # Idle
    /\ sframe.nrows = 0
    /\ "extra_column_1" \in sframe.columns
    /\ \A i \in 1..Len(REQUIRED_COLUMNS) : REQUIRED_COLUMNS[i] \in sframe.columns
    /\ ~sout.raised

-----------------------------------------------------------------------------
(* C28: a rule whose validate() raises is counted neither as passed nor as *)
(* failed: total_checks is the number of rules that returned a result, the *)
(* raising rule is not among critical_failures, and success_rate is taken  *)
(* over the returning rules only, so it is 100 when some rules raised and  *)
(* all others passed.                                                      *)
C28_RaisingRuleNotCounted ==
    (loaded = "yes" /\ metrics # None) =>
        LET returned == {i \in 1..Len(invoked) : ~invoked[i].out.raised}
            passed == {i \in returned : invoked[i].out.result.success}
        IN  /\ metrics.total_checks = Cardinality(returned)
            /\ metrics.passed_checks = Cardinality(passed)
            /\ metrics.failed_checks = Cardinality(returned \ passed)
            /\ \A i \in 1..Len(invoked) :
                  invoked[i].out.raised =>
                      invoked[i].rule \notin SeqToSet(metrics.critical_failures)
            /\ \A i \in returned \ passed :
                  invoked[i].rule \in SeqToSet(metrics.critical_failures)
            /\ metrics.success_rate.den > 0
            /\ metrics.success_rate.num * Cardinality(returned)
                  = 100 * Cardinality(passed) * metrics.success_rate.den
            /\ (returned = passed) => metrics.success_rate.num = 100 * metrics.success_rate.den

C28_Witness ==
    /\ loaded = "yes" /\ metrics # None
    /\ \E i \in 1..Len(invoked) : invoked[i].out.raised
    /\ \A i \in 1..Len(invoked) : ~invoked[i].out.raised => invoked[i].out.result.success
    /\ metrics.total_checks < Len(invoked)
    /\ metrics.success_rate.num = 100 * metrics.success_rate.den
    /\ metrics.critical_failures = <<>>

-----------------------------------------------------------------------------
(* C29: monitor() returns None, renders no report and persists no record,  *)
(* both when the dataset fails to load and when it loads but every rule of *)
(* the rule list raises; the return value is the same None in both cases.  *)
AllRaised(log) == log # <<>> /\ \A i \in 1..Len(log) : log[i].out.raised

C29_NoneWithoutResults ==
    /\ []((loaded = "no" \/ (loaded = "yes" /\ AllRaised(invoked))) =>
            /\ pc = "returned"
            /\ results = <<>> /\ metrics = None
            /\ report = <<>>
            /\ ret = None)
    /\ [][(pc = "validate" /\ (loaded' = "no" \/ AllRaised(invoked'))) =>
            /\ pc' = "returned"
            /\ ret' = None /\ report' = <<>>
            /\ files' = files /\ saved' = saved]_vars

\* a run over a readable dataset in which both rules of the list raised
C29_Witness ==
    /\ loaded = "yes" /\ pc = "returned"
    /\ Len(invoked) > 1 /\ AllRaised(invoked)
    /\ ret = None /\ report = <<>> /\ files = {}

-----------------------------------------------------------------------------
(* C30: when the dataset has none of the date columns the DateValidityRule *)
(* is configured with, validate() scans no cell and returns a passing      *)
(* result with score 0 and no recommendations, whatever the other columns  *)
(* and the number of rows are.                                             *)
C30_NoDateColumns ==
    (/\ rout # Idle /\ rrule.kind = "date_validity"
     /\ SeqToSet(rrule.date_columns) \cap Columns(rdata) = {}) =>
        /\ ~rout.raised
        /\ rout.result.rule_name = "date_validity"
        /\ rout.result.success
        /\ rout.result.score.num = 0 /\ rout.result.score.den > 0
        /\ rout.result.recommendations = <<>>
        /\ rout.result.details.total_date_cells = 0
        /\ rout.result.details.invalid_dates = 0

\* the rule applied to a frame with rows and other columns, but no date column
C30_Witness ==
    /\ rout # Idle /\ rrule.kind = "date_validity"
    /\ rrule.date_columns # <<>>
    /\ SeqToSet(rrule.date_columns) \cap Columns(rdata) = {}
    /\ Rows(rdata) > 0 /\ Columns(rdata) # {}
    /\ rout.result.success /\ rout.result.score.num = 0

====
